---- MODULE Spec2Model ----
(***************************************************************************)
(* Actuator coordination of the zigbee-switch firmware.                    *)
(*                                                                         *)
(* The repository holds four firmware variants that share the servo logic: *)
(*   "zs"     src/zigbee_switch/zigbee_switch.ino  (flag handoff to loop)  *)
(*   "legacy" src/legacy_esp_idf/main/main.c       (callback moves servo)  *)
(*   "h2"     src/H2_Zigbee_Switch/H2_Zigbee_Switch.ino (as legacy)        *)
(*   "main"   src/main/main.c                      (set_servo, no timer)   *)
(*                                                                         *)
(* Three execution contexts: the main context (loop() / button_task), the  *)
(* network-stack task (attribute-write callbacks) and the esp_timer task   *)
(* (servo auto-return callback).  Statements take no time; time passes     *)
(* only while the main context sits in one of its delay() calls, and the   *)
(* one-shot timer counts down in microseconds as esp_timer does.           *)
(***************************************************************************)
EXTENDS Integers, Sequences, FiniteSets, TLC

VARIABLES
    variant,                 \* which firmware is running
    pc,                      \* [main, zb] -> position of each context
    ret,                     \* zs: where turnLightOff() returns to in loop()
    arg,                     \* [main, zb] -> the bool `on` a context works with
    sleepLeft,               \* ms left of the main context's current delay
    servoDuty,               \* last duty written with ledc_set_duty
    lightState,              \* zs: zbLight on/off state
    g_servo_at_target,       \* legacy / h2: g_servo_at_target, g_servoAtTarget
    g_servo_state,           \* main: g_servo_state
    servoAutoReturnPending,  \* zs: volatile flag set by the timer callback
    timerArmed,              \* the one-shot esp_timer is running
    timerLeftUs,             \* microseconds until it expires
    connected,               \* Zigbee.connected() / g_zigbee_connected
    zbReq,                   \* requests made into the network stack (mod ReqWrap)
    hist,                    \* history record used to state the properties
    btn,                     \* the button: its level, the classifier's statics
                             \* and what the classifier has emitted
    node,                    \* boot and commissioning: wake cause, position in
                             \* setup() / loop(), state.pairing, elapsed time
    zbLock                   \* the Zigbee stack lock, and the call into the
                             \* stack that a task outside it is making

vars == << variant, pc, ret, arg, sleepLeft, servoDuty, lightState,
           g_servo_at_target, g_servo_state, servoAutoReturnPending,
           timerArmed, timerLeftUs, connected, zbReq, hist, btn, node,
           zbLock >>

(***************************************************************************)
(* Program constants                                                       *)
(***************************************************************************)
DUTY_AT_0_DEG == 205
DUTY_AT_180_DEG == 1024
SERVO_TARGET_ANGLE == 160
MAIN_SERVO_TARGET_ANGLE == 180
SERVO_REST_ANGLE == 20
SERVO_AUTO_RETURN_MS == 2000
LOOP_DELAY_MS == 10
REPORT_DELAY_MS == 50
BUTTON_DEBOUNCE_MS == 50
BUTTON_POLL_MS == 20
H2_LOOP_DELAY_MS == 100
MAIN_POLL_MS == 50
LONG_PRESS_MS == 3000
DEBOUNCE_MS == 100
BUTTON_LONG_PRESS_MS == 3000
PAIRING_TIMEOUT_MS == 40000
WAKE_POLL_MS == 50
STEERING_RETRY_MS == 1000
JOIN_SETTLE_MS == 500
FAILED_SHOW_MS == 2000

(***************************************************************************)
(* Bounds of the model                                                     *)
(***************************************************************************)
\* network-stack requests are counted modulo ReqWrap
ReqWrap == 3
\* auto-releases per press are counted up to MaxAuto
MaxAuto == 2
\* a hold of the button is followed for HoldSlackMs beyond the long-press time
HoldSlackMs == 200
\* what the classifier emits per hold is counted up to MaxEvents
MaxEvents == 2
\* loop() iterations per hold that run the auto-return consumer first
MaxStall == 1
\* seeking time is counted up to JoinSlackMs beyond the pairing timeout
JoinSlackMs == 3000
\* a steering attempt of the network stack takes multiples of ScanStepMs
ScanStepMs == 1000
\* steering failures are counted up to MaxRetries
MaxRetries == 3
\* losses of the network per boot
MaxLoss == 1
\* wake-ups from deep sleep that are followed
MaxBoots == 1

Variants == {"zs", "legacy", "h2", "main"}
Ctx == {"main", "zb"}

Min(a, b) == IF a < b THEN a ELSE b
Max(a, b) == IF a > b THEN a ELSE b

\* servoSetAngle / servo_set_angle / set_servo: angle -> PWM duty
Duty(angle) ==
    DUTY_AT_0_DEG + ((angle * (DUTY_AT_180_DEG - DUTY_AT_0_DEG)) \div 180)

TargetAngle == IF variant = "main" THEN MAIN_SERVO_TARGET_ANGLE
               ELSE SERVO_TARGET_ANGLE

\* a timeout handed over in milliseconds where microseconds are expected
AutoReturnUs_NoScale == SERVO_AUTO_RETURN_MS

\* the timeout handed to esp_timer_start_once, in microseconds
AutoReturnUs == SERVO_AUTO_RETURN_MS * 1000

\* the logical actuator position each variant keeps
Pressed ==
    CASE variant = "zs"               -> lightState
      [] variant \in {"legacy", "h2"} -> g_servo_at_target
      [] OTHER                        -> g_servo_state

PlayPcs == {"play_angle", "play_pos", "play_stop", "play_start"}
RestPcs == {"rest_stop", "rest_angle", "rest_pos"}
SetPcs == {"set_angle", "set_state"}

\* context c is inside a press / release / set_servo call
InPress(c) == pc[c] \in PlayPcs \cup {"on_state"}
InRelease(c) == pc[c] \in RestPcs \cup {"off_state"}
InOp(c) == InPress(c) \/ InRelease(c) \/ pc[c] \in SetPcs

\* zs: the loop is consuming a raised flag (between the test and the moment
\* the rest angle has been commanded)
Consuming ==
    /\ variant = "zs"
    /\ \/ pc.main = "clear"
       \/ ret = "button" /\ InRelease("main")

\* nothing is left over from an earlier press: no deadline armed, no expiry
\* pending or being consumed, no call in progress
Clean ==
    /\ ~timerArmed
    /\ ~servoAutoReturnPending
    /\ ~Consuming
    /\ \A c \in Ctx : ~InOp(c)

\* the main context is runnable: not in a delay, and not preempted by the
\* network-stack task (which has the higher priority except in "main",
\* where all tasks share priority 5 and are time-sliced)
MainReady ==
    /\ sleepLeft = 0
    /\ (variant = "main" \/ pc.zb = "idle")

Goto(c, l) == pc' = [pc EXCEPT ![c] = l]

(***************************************************************************)
(* History bookkeeping                                                     *)
(***************************************************************************)
HistInit ==
    [ solo       |-> FALSE,  \* the last command was a press issued when Clean
      sinceCmd   |-> 0,      \* ms since the last command (counted up to the delay)
      autoCount  |-> 0,      \* auto-releases since the last command
      early      |-> FALSE,  \* an auto-release came before the delay was over
      cancelled  |-> FALSE,  \* a release stopped the still running timer
      superseded |-> FALSE,  \* a command was issued while an expiry was pending
      unconsumed |-> 0,      \* expiries not yet taken by the loop
      rearmed    |-> FALSE,  \* the last press found an older deadline running
      tgl        |-> "none", \* what the toggle in progress saw, or "broken"
                             \* once another context has cut in
      repeat     |-> "none", \* the last command repeats the settled state:
                             \* "press" when Pressed with a running deadline,
                             \* "release" when at Rest with none
      fault      |-> "none", \* the driver rejected the positioning command of
                             \* the last command, a "press" or a "release"
      faultWas   |-> FALSE,  \* the position recorded when it was rejected
      tickFlag   |-> FALSE,  \* zs: the flag was raised when this tick began
      tickApplied |-> FALSE, \* zs: the turnLightOff() of step 1 has returned
      tickSteps  |-> << >>,  \* zs: the steps of loop() taken in this tick
      member     |-> FALSE,  \* legacy / h2 / main: the node is in a network
      leaves     |-> 0,      \* legacy / h2 / main: leave signals so far
      filtered   |-> "none", \* legacy / h2 / main: what made
                             \* zb_attribute_handler pass over the latest
                             \* notification since the last command
      status     |-> "none" ] \* what it returned for that notification

\* nothing is in progress or pending and the servo stands at `angle`
Settled(angle) ==
    /\ \A c \in Ctx : ~InOp(c)
    /\ ~servoAutoReturnPending /\ ~Consuming
    /\ servoDuty = Duty(angle)

\* what a command of this kind repeats, if anything
Repeats(kind) ==
    IF /\ kind = "press" /\ Pressed /\ Settled(TargetAngle)
       /\ timerArmed /\ timerLeftUs > 0
    THEN "press"
    ELSE IF /\ kind = "release" /\ ~Pressed /\ Settled(SERVO_REST_ANGLE)
            /\ ~timerArmed
         THEN "release"
         ELSE "none"

\* a press (kind = "press") or release is issued
HistCommand(kind) ==
    [ hist EXCEPT
        !.solo = (kind = "press" /\ Clean),
        !.sinceCmd = 0,
        !.autoCount = 0,
        !.early = FALSE,
        !.cancelled = IF kind = "press" THEN FALSE ELSE @,
        !.superseded = @ \/ servoAutoReturnPending \/ Consuming,
        !.rearmed = FALSE,
        !.tgl = IF @ = "none" THEN "none" ELSE "broken",
        !.repeat = Repeats(kind),
        !.fault = "none",
        !.faultWas = FALSE,
        !.filtered = "none",
        !.status = "none" ]

\* ledc_set_duty returns an error during a press / release
HistFault(kind) == [hist EXCEPT !.fault = kind, !.faultWas = Pressed]

\* the button path issues a toggle that saw the position `saw`
HistToggle(saw) ==
    [ HistCommand(IF saw THEN "release" ELSE "press") EXCEPT
        !.tgl = IF pc.zb # "idle" THEN "broken"
                ELSE IF saw THEN "sawPressed" ELSE "sawRest" ]

\* the button path has finished its toggle and reports
HistReport == [hist EXCEPT !.tgl = "none"]

\* an auto-release is applied (zs: the loop takes the flag; legacy, h2: the
\* callback runs)
HistAuto(h) ==
    [ h EXCEPT
        !.autoCount = Min(@ + 1, MaxAuto),
        !.early = @ \/ (h.solo /\ h.sinceCmd < SERVO_AUTO_RETURN_MS),
        !.tgl = IF @ \in {"none"} \/ variant = "zs" THEN @ ELSE "broken" ]

\* a release command stops the timer before the deadline has elapsed (and
\* no older expiry is pending, no press is in progress)
HistStop(c) ==
    IF /\ timerArmed /\ timerLeftUs > 0
       /\ ~servoAutoReturnPending /\ ~Consuming
       /\ \A d \in Ctx : ~InPress(d)
    THEN [hist EXCEPT !.cancelled = TRUE]
    ELSE hist

\* a press reaches its stop step while an older deadline is still running
HistRearm ==
    [hist EXCEPT !.rearmed = timerArmed /\ timerLeftUs < AutoReturnUs]

(***************************************************************************)
(* The one-shot timer (esp_timer)                                          *)
(***************************************************************************)
\* esp_timer_stop(timer)
TimerStop ==
    /\ timerArmed' = FALSE
    /\ timerLeftUs' = 0

\* esp_timer_start_once(timer, us): rejected with ESP_ERR_INVALID_STATE, and
\* nothing changes, when the timer is already running
TimerStartOnce(us) ==
    IF timerArmed
    THEN UNCHANGED << timerArmed, timerLeftUs >>
    ELSE /\ timerArmed' = TRUE
         /\ timerLeftUs' = us

(***************************************************************************)
(* The button and the statics of the classifier                            *)
(***************************************************************************)
BtnInit ==
    [ level       |-> FALSE,  \* the button is held down (pin reads LOW)
      heldMs      |-> 0,      \* ms since the press edge of the current hold
      lastHold    |-> 0,      \* length of the hold that has ended, in ms
      wasPressed  |-> FALSE,  \* wasPressed / btn_pressed / last_level == 0
      started     |-> FALSE,  \* main: press_start > 0
      sinceStart  |-> 0,      \* now - pressStartTime, in ms
      longHandled |-> FALSE,  \* longPressHandled / long_press_handled / handled
      sample      |-> FALSE,  \* the level read before the debounce delay
      bounced     |-> FALSE,  \* a press edge was not confirmed by the re-sample
      taps        |-> 0,      \* toggles done for this hold
      longs       |-> 0,      \* long presses recognised for this hold
      resets      |-> 0,      \* factory resets requested for this hold
      lateActs    |-> 0,      \* toggles / resets done after its release edge
      polled      |-> 0,      \* polls begun since its release edge
      stalls      |-> 0,      \* iterations that ran the consumer first
      halted      |-> FALSE ] \* Zigbee.factoryReset() has been called

NodeInit ==
    [ wake    |-> "cold",   \* esp_sleep_get_wakeup_cause(): "gpio" or another
      stage   |-> "loop",   \* where the boot / commissioning code stands
      level   |-> FALSE,    \* the button is held down during the wake-up
      wakeMs  |-> 0,        \* handleWakeup: millis() - pressStart
      held    |-> 0,        \* how long the button was held since the wake-up
      longHold |-> FALSE,   \* it was held for longer than LONG_PRESS_MS
      pairing |-> "IDLE",   \* zs: state.pairing
      elapsed |-> 0,        \* zs: millis() - state.pairingStartTime
      led     |-> "off",    \* zs: what the LED was last set to
      alarm   |-> 0,        \* retry alarms scheduled and not yet fired
      sought  |-> 0,        \* ms the node has been seeking since it last began
      first   |-> "none",   \* the state the boot put the node in
      shown   |-> 0,        \* ms the failure colour was shown before sleep
      armed   |-> 0,        \* setupReporting() calls for the latest join
      pushes  |-> 0,        \* state reports pushed for the latest join
      retries |-> 0,        \* steering failures since seeking began
      retryCount |-> 0,     \* the retry count kept by the program: no
                            \* variant declares or writes one
      seeks   |-> 0,        \* times seeking was entered in this boot
      fails   |-> 0,        \* times PAIRING_FAILED was entered in this boot
      losses  |-> 0,        \* times the network was lost in this boot
      boots   |-> 0,        \* wake-ups from deep sleep so far
      startErr |-> FALSE ]  \* legacy / h2 / main: DEVICE_FIRST_START /
                            \* DEVICE_REBOOT came with an error status

LockInit ==
    [ owner |-> "none",    \* who holds the lock: "none", "app", "stack"
      call  |-> "none",    \* the function a task outside the stack is in
      at    |-> "idle",    \* where it stands in that function
      err   |-> FALSE,     \* the request returned an error
      reqs  |-> 0,         \* requests made under the current acquisition
      bare  |-> FALSE,     \* a request was made without holding the lock
      held  |-> FALSE,     \* a function returned with the lock held
      calls |-> 0 ]        \* calls made so far

(***************************************************************************)
(* Initial state: after setup() / app_main()                               *)
(***************************************************************************)
Init ==
    /\ variant \in Variants
    /\ pc = [main |-> IF variant = "zs" THEN "check" ELSE "poll", zb |-> "idle"]
    /\ ret = "none"
    /\ arg = [main |-> FALSE, zb |-> FALSE]
    /\ sleepLeft = 0
    /\ zbLock = LockInit
       \* zs and h2 call servoSetAngle(SERVO_REST_ANGLE) in setup; legacy and
       \* main only configure the channel with .duty = DUTY_AT_0_DEG
    /\ servoDuty = IF variant \in {"zs", "h2"} THEN Duty(SERVO_REST_ANGLE)
                   ELSE DUTY_AT_0_DEG
    /\ lightState = FALSE
    /\ g_servo_at_target = FALSE
    /\ g_servo_state = FALSE
    /\ servoAutoReturnPending = FALSE
    /\ timerArmed = FALSE
    /\ timerLeftUs = 0
       \* zs: setup() found the node joined (state.pairing = PAIRING_IDLE);
       \* the others start with g_zigbee_connected = false
    /\ connected = (variant = "zs")
    /\ zbReq = 0
    /\ hist = HistInit
    /\ btn = BtnInit
    /\ node = NodeInit


posVars == << lightState, g_servo_at_target, g_servo_state >>
timerVars == << timerArmed, timerLeftUs >>
netVars == << connected, zbReq >>

(***************************************************************************)
(* zs: src/zigbee_switch/zigbee_switch.ino                                 *)
(***************************************************************************)
\* loop(), step 1: if (servoAutoReturnPending)
loop_check_SkipsFlag ==
    /\ variant = "zs" /\ MainReady /\ pc.main = "check"
    /\ Goto("main", "button")
    /\ hist' = [hist EXCEPT !.tickFlag = servoAutoReturnPending,
                            !.tickApplied = FALSE, !.tickSteps = << >>]
    /\ UNCHANGED << zbLock, node, btn, variant, ret, arg, sleepLeft, servoDuty, posVars,
                    servoAutoReturnPending, timerVars, netVars >>

loop_check ==
    /\ variant = "zs" /\ MainReady /\ pc.main = "check"
    /\ Goto("main", IF servoAutoReturnPending THEN "clear" ELSE "button")
    /\ hist' = [hist EXCEPT !.tickFlag = servoAutoReturnPending,
                            !.tickApplied = FALSE, !.tickSteps = << >>]
    /\ UNCHANGED << zbLock, node, btn, variant, ret, arg, sleepLeft, servoDuty, posVars,
                    servoAutoReturnPending, timerVars, netVars >>

\* a consumer that calls turnLightOff() but leaves the flag raised
loop_clear_KeepsFlag ==
    /\ variant = "zs" /\ MainReady /\ pc.main = "clear"
    /\ ret' = "button"
    /\ Goto("main", "off_state")
    /\ hist' = HistAuto([hist EXCEPT !.unconsumed = Max(@ - 1, 0),
                                     !.tickSteps = Append(@, 1)])
    /\ UNCHANGED << zbLock, node, btn, variant, arg, sleepLeft, servoDuty, posVars, timerVars,
                    netVars, servoAutoReturnPending >>

\* loop(), step 1: servoAutoReturnPending = false; turnLightOff();
loop_clear ==
    /\ variant = "zs" /\ MainReady /\ pc.main = "clear"
    /\ servoAutoReturnPending' = FALSE
    /\ ret' = "button"
    /\ Goto("main", "off_state")
    /\ hist' = HistAuto([hist EXCEPT !.unconsumed = Max(@ - 1, 0),
                                     !.tickSteps = Append(@, 1)])
    /\ UNCHANGED << zbLock, node, btn, variant, arg, sleepLeft, servoDuty, posVars, timerVars,
                    netVars >>

\* loop(), step 2: checkButton() and the dispatch of handleButton(); the
\* classifier's verdict is an input here
loop_button ==
    /\ variant = "zs" /\ MainReady /\ pc.main = "button"
    /\ \E action \in {"BUTTON_NONE", "BUTTON_SHORT_PRESS"} :
          Goto("main", IF action = "BUTTON_SHORT_PRESS" THEN "toggle" ELSE "pair")
    /\ hist' = [hist EXCEPT !.tickSteps = Append(@, 2)]
    /\ UNCHANGED << zbLock, node, btn, variant, ret, arg, sleepLeft, servoDuty, posVars,
                    servoAutoReturnPending, timerVars, netVars >>

\* toggleLight(): reads zbLight.getLightState() and branches
toggleLight ==
    /\ variant = "zs" /\ MainReady /\ pc.main = "toggle"
    /\ IF lightState
       THEN /\ Goto("main", "off_state")
            /\ ret' = "pair"
            /\ hist' = HistToggle(TRUE)
       ELSE /\ Goto("main", "on_state")
            /\ ret' = ret
            /\ hist' = HistToggle(FALSE)
    /\ UNCHANGED << zbLock, node, btn, variant, arg, sleepLeft, servoDuty, posVars,
                    servoAutoReturnPending, timerVars, netVars >>

\* turnLightOff(): zbLight.setLightState(false); ledOff();
turnLightOff ==
    /\ variant = "zs" /\ MainReady /\ pc.main = "off_state"
    /\ lightState' = FALSE
    /\ Goto("main", "rest_stop")
    /\ UNCHANGED << zbLock, node, btn, variant, ret, arg, sleepLeft, servoDuty, g_servo_at_target,
                    g_servo_state, servoAutoReturnPending, timerVars, netVars,
                    hist >>

\* turnLightOn(): zbLight.setLight(true, level, r, g, b);
turnLightOn ==
    /\ variant = "zs" /\ MainReady /\ pc.main = "on_state"
    /\ lightState' = TRUE
    /\ Goto("main", "play_angle")
    /\ UNCHANGED << zbLock, node, btn, variant, ret, arg, sleepLeft, servoDuty, g_servo_at_target,
                    g_servo_state, servoAutoReturnPending, timerVars, netVars,
                    hist >>

\* servoPlay(): servoSetAngle(SERVO_TARGET_ANGLE);
servoPlay_angle(c) ==
    /\ variant = "zs" /\ pc[c] = "play_angle"
    /\ c = "main" => MainReady
    /\ servoDuty' = Duty(SERVO_TARGET_ANGLE)
    /\ Goto(c, "play_stop")
    /\ UNCHANGED << zbLock, node, btn, variant, ret, arg, sleepLeft, posVars,
                    servoAutoReturnPending, timerVars, netVars, hist >>

\* a servoPlay() that starts the timer without stopping it first
servoPlay_stop_NoStop(c) ==
    /\ variant = "zs" /\ pc[c] = "play_stop"
    /\ c = "main" => MainReady
    /\ hist' = HistRearm
    /\ Goto(c, "play_start")
    /\ UNCHANGED << zbLock, node, btn, variant, ret, arg, sleepLeft, servoDuty, posVars,
                    servoAutoReturnPending, netVars, timerVars >>

\* servoPlay(): esp_timer_stop(servoTimer);
servoPlay_stop(c) ==
    /\ variant = "zs" /\ pc[c] = "play_stop"
    /\ c = "main" => MainReady
    /\ TimerStop
    /\ hist' = HistRearm
    /\ Goto(c, "play_start")
    /\ UNCHANGED << zbLock, node, btn, variant, ret, arg, sleepLeft, servoDuty, posVars,
                    servoAutoReturnPending, netVars >>

\* servoPlay(): esp_timer_start_once(servoTimer, SERVO_AUTO_RETURN_MS * 1000);
\* back in turnLightOn(): delay(50)
servoPlay_start(c) ==
    /\ variant = "zs" /\ pc[c] = "play_start"
    /\ c = "main" => MainReady
    /\ TimerStartOnce(AutoReturnUs)
    /\ IF c = "main"
       THEN Goto(c, "on_report") /\ sleepLeft' = REPORT_DELAY_MS
       ELSE Goto(c, "ret") /\ sleepLeft' = sleepLeft
    /\ UNCHANGED << zbLock, node, btn, variant, ret, arg, servoDuty, posVars,
                    servoAutoReturnPending, netVars, hist >>

\* a servoRest() that leaves the timer running
servoRest_stop_NoCancel(c) ==
    /\ variant = "zs" /\ pc[c] = "rest_stop"
    /\ c = "main" => MainReady
    /\ hist' = HistStop(c)
    /\ Goto(c, "rest_angle")
    /\ UNCHANGED << zbLock, node, btn, variant, ret, arg, sleepLeft, servoDuty, posVars,
                    servoAutoReturnPending, netVars, timerVars >>

\* servoRest(): esp_timer_stop(servoTimer);
servoRest_stop(c) ==
    /\ variant = "zs" /\ pc[c] = "rest_stop"
    /\ c = "main" => MainReady
    /\ TimerStop
    /\ hist' = HistStop(c)
    /\ Goto(c, "rest_angle")
    /\ UNCHANGED << zbLock, node, btn, variant, ret, arg, sleepLeft, servoDuty, posVars,
                    servoAutoReturnPending, netVars >>

\* servoRest(): servoSetAngle(SERVO_REST_ANGLE); back in turnLightOff():
\* delay(50)
servoRest_angle(c) ==
    /\ variant = "zs" /\ pc[c] = "rest_angle"
    /\ c = "main" => MainReady
    /\ servoDuty' = Duty(SERVO_REST_ANGLE)
    /\ IF c = "main"
       THEN /\ Goto(c, "off_report")
            /\ sleepLeft' = REPORT_DELAY_MS
            /\ hist' = IF ret = "button"
                       THEN [hist EXCEPT !.superseded = FALSE]
                       ELSE hist
       ELSE /\ Goto(c, "ret")
            /\ UNCHANGED << sleepLeft, hist >>
    /\ UNCHANGED << zbLock, node, btn, variant, ret, arg, posVars, servoAutoReturnPending,
                    timerVars, netVars >>

\* reportLightState() at the end of turnLightOn() / turnLightOff():
\* reportOnOff() and reportLevel() when Zigbee.connected()
reportLightState ==
    /\ variant = "zs" /\ MainReady /\ pc.main \in {"on_report", "off_report"}
    /\ zbReq' = IF connected THEN (zbReq + 2) % ReqWrap ELSE zbReq
    /\ Goto("main", IF pc.main = "off_report" THEN ret ELSE "pair")
    /\ ret' = "none"
    /\ hist' = [HistReport EXCEPT
                  !.tickApplied = @ \/ (pc.main = "off_report" /\ ret = "button")]
    /\ UNCHANGED << zbLock, node, btn, variant, arg, sleepLeft, servoDuty, posVars,
                    servoAutoReturnPending, timerVars, connected >>

\* loop(), steps 3 and 4: updatePairingState() (PAIRING_IDLE and connected:
\* nothing to do), delay(10)
loop_pair ==
    /\ variant = "zs" /\ MainReady /\ pc.main = "pair"
    /\ connected
    /\ sleepLeft' = LOOP_DELAY_MS
    /\ Goto("main", "check")
    /\ hist' = [hist EXCEPT !.tickSteps = Append(@, 3)]
    /\ UNCHANGED << zbLock, node, btn, variant, ret, arg, servoDuty, posVars,
                    servoAutoReturnPending, timerVars, netVars >>

\* onRgbChange(on, ...) / onTempChange(on, ...): the library has stored the
\* new on/off state before it calls back
onRgbChange ==
    /\ variant = "zs" /\ pc.zb = "idle" /\ connected
    /\ \E on \in BOOLEAN :
          /\ lightState' = on
          /\ arg' = [arg EXCEPT !.zb = on]
          /\ Goto("zb", IF on THEN "play_angle" ELSE "rest_stop")
          /\ hist' = HistCommand(IF on THEN "press" ELSE "release")
    /\ UNCHANGED << zbLock, node, btn, variant, ret, sleepLeft, servoDuty, g_servo_at_target,
                    g_servo_state, servoAutoReturnPending, timerVars, netVars >>

\* servoReturnCallback(): servoAutoReturnPending = true;
servoReturnCallback ==
    /\ variant = "zs"
    /\ timerArmed /\ timerLeftUs = 0
    /\ timerArmed' = FALSE
    /\ timerLeftUs' = 0
    /\ servoAutoReturnPending' = TRUE
    /\ hist' = [hist EXCEPT !.unconsumed = Min(@ + 1, MaxAuto)]
    /\ UNCHANGED << zbLock, node, btn, variant, pc, ret, arg, sleepLeft, servoDuty, posVars,
                    netVars >>


(***************************************************************************)
(* legacy: src/legacy_esp_idf/main/main.c, and the same servo code of      *)
(* h2: src/H2_Zigbee_Switch/H2_Zigbee_Switch.ino                           *)
(***************************************************************************)
TimerVariant == variant \in {"legacy", "h2"}

\* where a finished servo_play / servo_rest returns to
AfterServo(c) ==
    IF c = "zb" THEN "ret"
    ELSE IF variant = "legacy" THEN "report" ELSE "poll"

\* button_task: one poll; the classifier's verdict is an input here.  A
\* confirmed release waits BUTTON_DEBOUNCE_MS before it acts, an idle poll
\* ends in vTaskDelay(20)
button_task ==
    /\ variant = "legacy" /\ MainReady /\ pc.main = "poll"
    /\ \E tap \in BOOLEAN :
          IF tap
          THEN Goto("main", "toggle") /\ sleepLeft' = BUTTON_DEBOUNCE_MS
          ELSE pc' = pc /\ sleepLeft' = BUTTON_POLL_MS
    /\ UNCHANGED << zbLock, node, btn, variant, ret, arg, servoDuty, posVars,
                    servoAutoReturnPending, timerVars, netVars, hist >>

\* servo_toggle(): reads g_servo_at_target and branches
servo_toggle ==
    /\ variant = "legacy" /\ MainReady /\ pc.main = "toggle"
    /\ IF g_servo_at_target
       THEN Goto("main", "rest_stop") /\ hist' = HistToggle(TRUE)
       ELSE Goto("main", "play_angle") /\ hist' = HistToggle(FALSE)
    /\ UNCHANGED << zbLock, node, btn, variant, ret, arg, sleepLeft, servoDuty, posVars,
                    servoAutoReturnPending, timerVars, netVars >>

\* H2 loop(): Serial command 'p' -> servoPlay(); otherwise delay(100)
h2_loop ==
    /\ variant = "h2" /\ MainReady /\ pc.main = "poll"
    /\ \E cmd \in {"none", "p"} :
          IF cmd = "p"
          THEN /\ Goto("main", "play_angle")
               /\ hist' = HistCommand("press")
               /\ sleepLeft' = sleepLeft
          ELSE /\ pc' = pc
               /\ hist' = hist
               /\ sleepLeft' = H2_LOOP_DELAY_MS
    /\ UNCHANGED << zbLock, node, btn, variant, ret, arg, servoDuty, posVars,
                    servoAutoReturnPending, timerVars, netVars >>

\* servo_play(): servo_set_angle(SERVO_TARGET_ANGLE);
servo_play_angle(c) ==
    /\ TimerVariant /\ pc[c] = "play_angle"
    /\ c = "main" => MainReady
    /\ servoDuty' = Duty(SERVO_TARGET_ANGLE)
    /\ Goto(c, "play_pos")
    /\ UNCHANGED << zbLock, node, btn, variant, ret, arg, sleepLeft, posVars,
                    servoAutoReturnPending, timerVars, netVars, hist >>

\* servo_play(): g_servo_at_target = true;
servo_play_pos(c) ==
    /\ TimerVariant /\ pc[c] = "play_pos"
    /\ c = "main" => MainReady
    /\ g_servo_at_target' = TRUE
    /\ Goto(c, "play_stop")
    /\ UNCHANGED << zbLock, node, btn, variant, ret, arg, sleepLeft, servoDuty, lightState,
                    g_servo_state, servoAutoReturnPending, timerVars, netVars,
                    hist >>

\* a servo_start_timer() that starts the timer without stopping it first
servo_start_timer_stop_NoStop(c) ==
    /\ TimerVariant /\ pc[c] = "play_stop"
    /\ c = "main" => MainReady
    /\ hist' = HistRearm
    /\ Goto(c, "play_start")
    /\ UNCHANGED << zbLock, node, btn, variant, ret, arg, sleepLeft, servoDuty, posVars,
                    servoAutoReturnPending, netVars, timerVars >>

\* servo_start_timer(): esp_timer_stop(g_servo_timer);
servo_start_timer_stop(c) ==
    /\ TimerVariant /\ pc[c] = "play_stop"
    /\ c = "main" => MainReady
    /\ TimerStop
    /\ hist' = HistRearm
    /\ Goto(c, "play_start")
    /\ UNCHANGED << zbLock, node, btn, variant, ret, arg, sleepLeft, servoDuty, posVars,
                    servoAutoReturnPending, netVars >>

\* servo_start_timer(): esp_timer_start_once(g_servo_timer,
\* SERVO_AUTO_RETURN_MS * 1000); H2's loop() then reaches delay(100)
servo_start_timer_start(c) ==
    /\ TimerVariant /\ pc[c] = "play_start"
    /\ c = "main" => MainReady
    /\ TimerStartOnce(AutoReturnUs)
    /\ Goto(c, AfterServo(c))
    /\ sleepLeft' = IF c = "main" /\ variant = "h2" THEN H2_LOOP_DELAY_MS
                    ELSE sleepLeft
    /\ UNCHANGED << zbLock, node, btn, variant, ret, arg, servoDuty, posVars,
                    servoAutoReturnPending, netVars, hist >>

\* servo_rest(): servo_cancel_timer();
servo_cancel_timer(c) ==
    /\ TimerVariant /\ pc[c] = "rest_stop"
    /\ c = "main" => MainReady
    /\ TimerStop
    /\ hist' = HistStop(c)
    /\ Goto(c, "rest_angle")
    /\ UNCHANGED << zbLock, node, btn, variant, ret, arg, sleepLeft, servoDuty, posVars,
                    servoAutoReturnPending, netVars >>

\* servo_rest(): servo_set_angle(SERVO_REST_ANGLE);
servo_rest_angle(c) ==
    /\ TimerVariant /\ pc[c] = "rest_angle"
    /\ c = "main" => MainReady
    /\ servoDuty' = Duty(SERVO_REST_ANGLE)
    /\ Goto(c, "rest_pos")
    /\ UNCHANGED << zbLock, node, btn, variant, ret, arg, sleepLeft, posVars,
                    servoAutoReturnPending, timerVars, netVars, hist >>

\* servo_rest(): g_servo_at_target = false;
servo_rest_pos(c) ==
    /\ TimerVariant /\ pc[c] = "rest_pos"
    /\ c = "main" => MainReady
    /\ g_servo_at_target' = FALSE
    /\ Goto(c, AfterServo(c))
    /\ UNCHANGED << zbLock, node, btn, variant, ret, arg, sleepLeft, servoDuty, lightState,
                    g_servo_state, servoAutoReturnPending, timerVars, netVars,
                    hist >>

\* button_task after servo_toggle(): if (g_zigbee_connected)
\* report_attribute(); then vTaskDelay(20)
button_task_report ==
    /\ variant = "legacy" /\ MainReady /\ pc.main = "report"
    /\ zbReq' = IF connected THEN (zbReq + 1) % ReqWrap ELSE zbReq
    /\ sleepLeft' = BUTTON_POLL_MS
    /\ Goto("main", "poll")
    /\ hist' = HistReport
    /\ UNCHANGED << zbLock, node, btn, variant, ret, arg, servoDuty, posVars,
                    servoAutoReturnPending, timerVars, connected >>

\* what an attribute-write notification is addressed to: the on/off
\* attribute of the device's endpoint, or another endpoint, cluster or
\* attribute; main also tests the data type
WriteKinds ==
    {"onoff", "endpoint", "cluster", "attribute"}
        \cup (IF variant = "main" THEN {"type"} ELSE {})

\* zb_attribute_handler() passing over a notification: return ESP_OK
Filtered(kind) ==
    /\ hist' = [hist EXCEPT !.filtered = kind, !.status = "ESP_OK"]
    /\ UNCHANGED << arg, pc >>

\* zb_attribute_handler(): servo_play() / servo_rest() for the on/off
\* attribute of the device's endpoint, nothing for another notification
zb_attribute_handler_AnyEndpoint ==
    /\ TimerVariant /\ pc.zb = "idle" /\ connected
    /\ \E kind \in WriteKinds, on \in BOOLEAN :
          IF kind \in {"onoff", "endpoint"}
          THEN /\ arg' = [arg EXCEPT !.zb = on]
               /\ Goto("zb", IF on THEN "play_angle" ELSE "rest_stop")
               /\ hist' = [HistCommand(IF on THEN "press" ELSE "release")
                             EXCEPT !.filtered =
                                       IF kind = "onoff" THEN "none" ELSE kind]
          ELSE Filtered(kind)
    /\ UNCHANGED << zbLock, node, btn, variant, ret, sleepLeft, servoDuty, posVars,
                    servoAutoReturnPending, timerVars, netVars >>

zb_attribute_handler ==
    /\ TimerVariant /\ pc.zb = "idle" /\ connected
    /\ \E kind \in WriteKinds, on \in BOOLEAN :
          IF kind = "onoff"
          THEN /\ arg' = [arg EXCEPT !.zb = on]
               /\ Goto("zb", IF on THEN "play_angle" ELSE "rest_stop")
               /\ hist' = HistCommand(IF on THEN "press" ELSE "release")
          ELSE Filtered(kind)
    /\ UNCHANGED << zbLock, node, btn, variant, ret, sleepLeft, servoDuty, posVars,
                    servoAutoReturnPending, timerVars, netVars >>

\* servo_return_callback(): servo_set_angle(SERVO_REST_ANGLE);
\* g_servo_at_target = false;
servo_return_callback ==
    /\ TimerVariant
    /\ timerArmed /\ timerLeftUs = 0
    /\ timerArmed' = FALSE
    /\ timerLeftUs' = 0
    /\ servoDuty' = Duty(SERVO_REST_ANGLE)
    /\ g_servo_at_target' = FALSE
    /\ hist' = HistAuto(hist)
    /\ UNCHANGED << zbLock, node, btn, variant, pc, ret, arg, sleepLeft, lightState,
                    g_servo_state, servoAutoReturnPending, netVars >>

(***************************************************************************)
(* main: src/main/main.c                                                   *)
(***************************************************************************)
\* button_task: one poll; on a release after a confirmed press
\* set_servo(!g_servo_state), otherwise vTaskDelay(50)
main_button_task ==
    /\ variant = "main" /\ MainReady /\ pc.main = "poll"
    /\ \E tap \in BOOLEAN :
          IF tap
          THEN /\ arg' = [arg EXCEPT !.main = ~g_servo_state]
               /\ Goto("main", "set_angle")
               /\ hist' = HistToggle(g_servo_state)
               /\ sleepLeft' = sleepLeft
          ELSE /\ UNCHANGED << arg, pc, hist >>
               /\ sleepLeft' = MAIN_POLL_MS
    /\ UNCHANGED << zbLock, node, btn, variant, ret, servoDuty, posVars, servoAutoReturnPending,
                    timerVars, netVars >>

\* set_servo(on): angle, duty, ledc_set_duty
set_servo_duty(c) ==
    /\ variant = "main" /\ pc[c] = "set_angle"
    /\ c = "main" => MainReady
    /\ servoDuty' = Duty(IF arg[c] THEN MAIN_SERVO_TARGET_ANGLE
                         ELSE SERVO_REST_ANGLE)
    /\ Goto(c, "set_state")
    /\ UNCHANGED << zbLock, node, btn, variant, ret, arg, sleepLeft, posVars,
                    servoAutoReturnPending, timerVars, netVars, hist >>

\* set_servo(on): g_servo_state = on;
set_servo_state(c) ==
    /\ variant = "main" /\ pc[c] = "set_state"
    /\ c = "main" => MainReady
    /\ g_servo_state' = arg[c]
    /\ Goto(c, IF c = "zb" THEN "ret" ELSE "report")
    /\ UNCHANGED << zbLock, node, btn, variant, ret, arg, sleepLeft, servoDuty, lightState,
                    g_servo_at_target, servoAutoReturnPending, timerVars,
                    netVars, hist >>

\* button_task after set_servo(): report_attribute(); then vTaskDelay(50)
main_button_report ==
    /\ variant = "main" /\ MainReady /\ pc.main = "report"
    /\ zbReq' = (zbReq + 1) % ReqWrap
    /\ arg' = [arg EXCEPT !.main = FALSE]
    /\ sleepLeft' = MAIN_POLL_MS
    /\ Goto("main", "poll")
    /\ hist' = HistReport
    /\ UNCHANGED << zbLock, node, btn, variant, ret, servoDuty, posVars, servoAutoReturnPending,
                    timerVars, connected >>

\* zb_attribute_handler(): set_servo(on) for a bool on/off attribute write
main_zb_attribute_handler ==
    /\ variant = "main" /\ pc.zb = "idle" /\ connected
    /\ \E kind \in WriteKinds, on \in BOOLEAN :
          IF kind = "onoff"
          THEN /\ arg' = [arg EXCEPT !.zb = on]
               /\ Goto("zb", "set_angle")
               /\ hist' = HistCommand(IF on THEN "press" ELSE "release")
          ELSE Filtered(kind)
    /\ UNCHANGED << zbLock, node, btn, variant, ret, sleepLeft, servoDuty, posVars,
                    servoAutoReturnPending, timerVars, netVars >>

(***************************************************************************)
(* Shared by the variants                                                  *)
(***************************************************************************)
\* the attribute callback returns to the network stack
zb_return ==
    /\ pc.zb = "ret"
    /\ Goto("zb", "idle")
    /\ arg' = [arg EXCEPT !.zb = FALSE]
    /\ UNCHANGED << zbLock, node, btn, variant, ret, sleepLeft, servoDuty, posVars,
                    servoAutoReturnPending, timerVars, netVars, hist >>

\* esp_zb_app_signal_handler(): ESP_ZB_BDB_SIGNAL_STEERING with ESP_OK
signal_steering_ok ==
    /\ variant # "zs" /\ pc.zb = "idle" /\ ~connected
    /\ connected' = TRUE
    /\ hist' = [hist EXCEPT !.member = TRUE]
    /\ UNCHANGED << zbLock, node, btn, variant, pc, ret, arg, sleepLeft, servoDuty, posVars,
                    servoAutoReturnPending, timerVars, zbReq >>

\* esp_zb_app_signal_handler(): ESP_ZB_ZDO_SIGNAL_LEAVE.  h2 and main clear
\* the flag; legacy has no case for the signal and takes the default branch
signal_leave ==
    /\ variant # "zs" /\ pc.zb = "idle"
    /\ hist.member /\ hist.leaves < MaxLoss
    /\ connected' = IF variant = "legacy" THEN connected ELSE FALSE
    /\ hist' = [hist EXCEPT !.member = FALSE, !.leaves = @ + 1]
    /\ UNCHANGED << zbLock, node, btn, variant, pc, ret, arg, sleepLeft, servoDuty, posVars,
                    servoAutoReturnPending, timerVars, zbReq >>

\* time passes while the main context is in a delay, up to the end of the
\* delay or the expiry of the timer, whichever comes first
Advance ==
    /\ sleepLeft > 0
    /\ \A c \in Ctx : ~InOp(c)
    /\ pc.zb = "idle"
    /\ ~(timerArmed /\ timerLeftUs = 0)
    /\ LET d == IF timerArmed
                THEN Min(sleepLeft, (timerLeftUs + 999) \div 1000)
                ELSE sleepLeft
       IN /\ sleepLeft' = sleepLeft - d
          /\ timerLeftUs' = IF timerArmed THEN Max(timerLeftUs - d * 1000, 0)
                            ELSE 0
          /\ hist' = [hist EXCEPT !.sinceCmd =
                                      Min(@ + d, SERVO_AUTO_RETURN_MS)]
    /\ UNCHANGED << zbLock, node, btn, variant, pc, ret, arg, servoDuty, posVars,
                    servoAutoReturnPending, timerArmed, netVars >>

Next ==
    \/ loop_check
    \/ loop_clear
    \/ loop_button
    \/ toggleLight
    \/ turnLightOff
    \/ turnLightOn
    \/ \E c \in Ctx : servoPlay_angle(c)
    \/ \E c \in Ctx : servoPlay_stop(c)
    \/ \E c \in Ctx : servoPlay_start(c)
    \/ \E c \in Ctx : servoRest_stop(c)
    \/ \E c \in Ctx : servoRest_angle(c)
    \/ reportLightState
    \/ loop_pair
    \/ onRgbChange
    \/ servoReturnCallback
    \/ button_task
    \/ servo_toggle
    \/ h2_loop
    \/ \E c \in Ctx : servo_play_angle(c)
    \/ \E c \in Ctx : servo_play_pos(c)
    \/ \E c \in Ctx : servo_start_timer_stop(c)
    \/ \E c \in Ctx : servo_start_timer_start(c)
    \/ \E c \in Ctx : servo_cancel_timer(c)
    \/ \E c \in Ctx : servo_rest_angle(c)
    \/ \E c \in Ctx : servo_rest_pos(c)
    \/ button_task_report
    \/ zb_attribute_handler
    \/ servo_return_callback
    \/ main_button_task
    \/ \E c \in Ctx : set_servo_duty(c)
    \/ \E c \in Ctx : set_servo_state(c)
    \/ main_button_report
    \/ main_zb_attribute_handler
    \/ zb_return
    \/ signal_steering_ok
    \/ signal_leave
    \/ Advance

Spec == Init /\ [][Next]_vars


(***************************************************************************)
(* The driver rejecting a command: ledc_set_duty returns an esp_err_t,     *)
(* which servo_set_angle and set_servo do not look at                      *)
(***************************************************************************)
\* servo_play(): servo_set_angle(SERVO_TARGET_ANGLE) with ledc_set_duty
\* failing: the duty stays, servo_play goes on
servo_play_angle_fault(c) ==
    /\ TimerVariant /\ pc[c] = "play_angle"
    /\ c = "main" => MainReady
    /\ hist' = HistFault("press")
    /\ Goto(c, "play_pos")
    /\ UNCHANGED << zbLock, node, btn, variant, ret, arg, sleepLeft, servoDuty, posVars,
                    servoAutoReturnPending, timerVars, netVars >>

\* servo_rest(): servo_set_angle(SERVO_REST_ANGLE) with ledc_set_duty
\* failing
servo_rest_angle_fault(c) ==
    /\ TimerVariant /\ pc[c] = "rest_angle"
    /\ c = "main" => MainReady
    /\ hist' = HistFault("release")
    /\ Goto(c, "rest_pos")
    /\ UNCHANGED << zbLock, node, btn, variant, ret, arg, sleepLeft, servoDuty, posVars,
                    servoAutoReturnPending, timerVars, netVars >>

\* set_servo(on) with ledc_set_duty failing
set_servo_duty_fault(c) ==
    /\ variant = "main" /\ pc[c] = "set_angle"
    /\ c = "main" => MainReady
    /\ hist' = HistFault(IF arg[c] THEN "press" ELSE "release")
    /\ Goto(c, "set_state")
    /\ UNCHANGED << zbLock, node, btn, variant, ret, arg, sleepLeft, servoDuty, posVars,
                    servoAutoReturnPending, timerVars, netVars >>

NextFault ==
    \/ Next
    \/ \E c \in Ctx : servo_play_angle_fault(c)
    \/ \E c \in Ctx : servo_rest_angle_fault(c)
    \/ \E c \in Ctx : set_servo_duty_fault(c)

SpecFault == Init /\ [][NextFault]_vars

(***************************************************************************)
(* The button classifier against a physical button.  The button's edges    *)
(* fall at any millisecond; the firmware samples it once per iteration.    *)
(* One hold is followed: its press edge, its release edge, and the polls   *)
(* that come after it.  The device has been up for longer than the         *)
(* long-press time when the button is first touched.                       *)
(***************************************************************************)
ButtonVariants == {"zs", "legacy", "main"}

\* the thresholds and the poll period of the running variant
LongMs == IF variant = "zs" THEN LONG_PRESS_MS ELSE BUTTON_LONG_PRESS_MS
FloorMs == IF variant = "zs" THEN DEBOUNCE_MS ELSE BUTTON_DEBOUNCE_MS
PollMs ==
    CASE variant = "zs"     -> LOOP_DELAY_MS
      [] variant = "legacy" -> BUTTON_POLL_MS
      [] OTHER              -> MAIN_POLL_MS

\* durations are counted up to HoldCapMs
HoldCapMs == LONG_PRESS_MS + HoldSlackMs
CapMs(x) == Min(x, HoldCapMs)

\* polls after the release edge by which the classifier has had its say
DonePolls == 3

\* the hold has ended and the classifier has dealt with it
HoldDone ==
    /\ ~btn.level /\ btn.lastHold > 0
    /\ btn.polled >= DonePolls \/ btn.halted

\* d ms pass (now - pressStartTime is followed while the classifier has a
\* press start on record)
BtnTick(b, d) ==
    [ b EXCEPT !.heldMs = IF b.level THEN CapMs(@ + d) ELSE @,
               !.sinceStart = IF b.wasPressed \/ b.started
                              THEN CapMs(@ + d) ELSE 0 ]

\* a poll reads the pin
BtnSampled(b) ==
    [ b EXCEPT !.polled = IF ~b.level /\ b.lastHold > 0
                          THEN Min(@ + 1, DonePolls) ELSE @ ]

\* the classifier emits a tap: the toggle is carried out
BtnTap(b) ==
    [ b EXCEPT !.taps = Min(@ + 1, MaxEvents),
               !.lateActs = IF b.level THEN @ ELSE Min(@ + 1, MaxEvents) ]

\* the classifier recognises a long press
BtnLong(b) == [ b EXCEPT !.longs = Min(@ + 1, MaxEvents) ]

\* Zigbee.factoryReset() / esp_zb_factory_reset() is called
BtnReset(b) ==
    [ b EXCEPT !.resets = Min(@ + 1, MaxEvents),
               !.lateActs = IF b.level THEN @ ELSE Min(@ + 1, MaxEvents),
               !.halted = TRUE ]

actVars == << variant, ret, arg, servoDuty, lightState, g_servo_at_target,
              g_servo_state, servoAutoReturnPending, timerArmed, timerLeftUs,
              connected, zbReq, hist, node, zbLock >>

InitButton ==
    /\ variant \in ButtonVariants
    /\ pc = [main |-> "poll", zb |-> "idle"]
    /\ ret = "none"
    /\ arg = [main |-> FALSE, zb |-> FALSE]
    /\ sleepLeft = 0
    /\ zbLock = LockInit
    /\ servoDuty = IF variant = "zs" THEN Duty(SERVO_REST_ANGLE)
                   ELSE DUTY_AT_0_DEG
    /\ lightState = FALSE
    /\ g_servo_at_target = FALSE
    /\ g_servo_state = FALSE
    /\ servoAutoReturnPending = FALSE
    /\ timerArmed = FALSE
    /\ timerLeftUs = 0
    /\ connected = (variant = "zs")
    /\ zbReq = 0
    /\ hist = HistInit
    /\ btn = BtnInit
    /\ node = NodeInit

\* the user presses the button, d ms into the current delay
ButtonPress ==
    /\ ~btn.level /\ btn.lastHold = 0
    /\ \E d \in 0 .. Max(sleepLeft - 1, 0) :
          /\ sleepLeft' = sleepLeft - d
          /\ btn' = [ BtnTick(btn, d) EXCEPT
                        !.level = TRUE, !.heldMs = 0, !.lastHold = 0,
                        !.taps = 0, !.longs = 0, !.resets = 0,
                        !.lateActs = 0, !.polled = 0, !.stalls = 0 ]
    /\ UNCHANGED << actVars, pc >>

\* the user lets go, d ms into the current delay
ButtonRelease ==
    /\ btn.level
    /\ \E d \in 0 .. Max(sleepLeft - 1, 0) :
          /\ btn.heldMs + d >= 1
          /\ sleepLeft' = sleepLeft - d
          /\ btn' = [ BtnTick(btn, d) EXCEPT
                        !.level = FALSE, !.heldMs = 0,
                        !.lastHold = CapMs(btn.heldMs + d) ]
    /\ UNCHANGED << actVars, pc >>

\* the rest of the current delay passes
BtnWake ==
    /\ sleepLeft > 0 /\ ~btn.halted
    /\ sleepLeft' = 0
    /\ btn' = BtnTick(btn, sleepLeft)
    /\ UNCHANGED << actVars, pc >>

\* zs, loop(): the iteration finds servoAutoReturnPending set and runs
\* turnLightOff() with its delay(50) before it gets to checkButton()
zs_stall ==
    /\ variant = "zs" /\ pc.main = "poll" /\ sleepLeft = 0 /\ ~btn.halted
    /\ btn.level \/ (btn.lastHold > 0 /\ ~HoldDone)
    /\ btn.stalls < MaxStall
    /\ sleepLeft' = REPORT_DELAY_MS
    /\ btn' = [btn EXCEPT !.stalls = @ + 1]
    /\ UNCHANGED << actVars, pc >>

\* zs: checkButton() and handleButton(), then the rest of the iteration:
\* toggleLight() holds a delay(50); loop() ends in delay(10)
checkButton ==
    /\ variant = "zs" /\ pc.main = "poll" /\ sleepLeft = 0 /\ ~btn.halted
    /\ LET b == BtnSampled(btn)
           isPressed == btn.level
       IN  IF isPressed /\ ~b.wasPressed
           THEN /\ btn' = [b EXCEPT !.sinceStart = 0, !.longHandled = FALSE,
                                    !.wasPressed = TRUE]
                /\ sleepLeft' = LOOP_DELAY_MS
           ELSE IF isPressed /\ b.wasPressed
           THEN IF ~b.longHandled /\ b.sinceStart > LONG_PRESS_MS
                THEN /\ btn' = BtnReset(BtnLong([b EXCEPT !.longHandled = TRUE]))
                     /\ sleepLeft' = 0
                ELSE /\ btn' = b
                     /\ sleepLeft' = LOOP_DELAY_MS
           ELSE IF ~isPressed /\ b.wasPressed
           THEN IF ~b.longHandled /\ b.sinceStart > DEBOUNCE_MS
                THEN /\ btn' = BtnTap([b EXCEPT !.wasPressed = FALSE])
                     /\ sleepLeft' = REPORT_DELAY_MS + LOOP_DELAY_MS
                ELSE /\ btn' = [b EXCEPT !.wasPressed = FALSE]
                     /\ sleepLeft' = LOOP_DELAY_MS
           ELSE /\ btn' = b
                /\ sleepLeft' = LOOP_DELAY_MS
    /\ UNCHANGED << actVars, pc >>

\* legacy, button_task: read the pin and branch; a new press and a release
\* are confirmed after vTaskDelay(BUTTON_DEBOUNCE_MS)
legacy_poll ==
    /\ variant = "legacy" /\ pc.main = "poll" /\ sleepLeft = 0 /\ ~btn.halted
    /\ LET b == BtnSampled(btn)
           level == btn.level
       IN  IF level /\ ~b.wasPressed
           THEN /\ btn' = b
                /\ Goto("main", "confirm_press")
                /\ sleepLeft' = BUTTON_DEBOUNCE_MS
           ELSE IF level /\ b.wasPressed /\ ~b.longHandled
           THEN /\ btn' = IF b.sinceStart > BUTTON_LONG_PRESS_MS
                          THEN BtnLong([b EXCEPT !.longHandled = TRUE])
                          ELSE b
                /\ pc' = pc
                /\ sleepLeft' = BUTTON_POLL_MS
           ELSE IF ~level /\ b.wasPressed
           THEN /\ btn' = b
                /\ Goto("main", "confirm_release")
                /\ sleepLeft' = BUTTON_DEBOUNCE_MS
           ELSE /\ btn' = b
                /\ pc' = pc
                /\ sleepLeft' = BUTTON_POLL_MS
    /\ UNCHANGED actVars

\* legacy, button_task: the pin is read again after the debounce delay of a
\* new press
legacy_confirm_press ==
    /\ variant = "legacy" /\ pc.main = "confirm_press" /\ sleepLeft = 0
    /\ btn' = IF btn.level
              THEN [btn EXCEPT !.wasPressed = TRUE, !.sinceStart = 0,
                               !.longHandled = FALSE]
              ELSE [btn EXCEPT !.bounced = TRUE]
    /\ Goto("main", "poll")
    /\ sleepLeft' = BUTTON_POLL_MS
    /\ UNCHANGED actVars

\* legacy, button_task: the pin is read again after the debounce delay of a
\* release; a confirmed release resets the network (long press) or toggles
legacy_confirm_release_Toggles ==
    /\ variant = "legacy" /\ pc.main = "confirm_release" /\ sleepLeft = 0
    /\ btn' = IF ~btn.level
              THEN BtnTap([btn EXCEPT !.wasPressed = FALSE,
                                      !.longHandled = FALSE])
              ELSE btn
    /\ Goto("main", "poll")
    /\ sleepLeft' = BUTTON_POLL_MS
    /\ UNCHANGED actVars

legacy_confirm_release ==
    /\ variant = "legacy" /\ pc.main = "confirm_release" /\ sleepLeft = 0
    /\ btn' = IF ~btn.level
              THEN LET b == [btn EXCEPT !.wasPressed = FALSE,
                                        !.longHandled = FALSE]
                   IN  IF btn.longHandled THEN BtnReset(b) ELSE BtnTap(b)
              ELSE btn
    /\ Goto("main", "poll")
    /\ sleepLeft' = BUTTON_POLL_MS
    /\ UNCHANGED actVars

\* main, button_task after the press branch: the holding test and the
\* release test on the level read at the top of the iteration, then
\* last_level = level
MainRest(level, b) ==
    LET elapsed == IF b.started THEN b.sinceStart ELSE HoldCapMs
        held == IF level /\ ~b.longHandled /\ elapsed > BUTTON_LONG_PRESS_MS
                THEN BtnLong([b EXCEPT !.longHandled = TRUE])
                ELSE b
        rel == IF b.wasPressed /\ ~level
               THEN [ (IF held.longHandled THEN BtnReset(held)
                       ELSE IF held.started THEN BtnTap(held) ELSE held)
                      EXCEPT !.started = FALSE ]
               ELSE held
    IN  [rel EXCEPT !.wasPressed = level, !.sample = FALSE]

\* main, button_task: read the pin; a press edge waits
\* vTaskDelay(BUTTON_DEBOUNCE_MS) before the rest of the iteration
main_poll ==
    /\ variant = "main" /\ pc.main = "poll" /\ sleepLeft = 0 /\ ~btn.halted
    /\ LET b == BtnSampled(btn)
       IN  IF ~b.wasPressed /\ btn.level
           THEN /\ btn' = [b EXCEPT !.sample = TRUE]
                /\ Goto("main", "confirm")
                /\ sleepLeft' = BUTTON_DEBOUNCE_MS
           ELSE /\ btn' = MainRest(btn.level, b)
                /\ pc' = pc
                /\ sleepLeft' = MAIN_POLL_MS
    /\ UNCHANGED actVars

\* main, button_task: the pin is read again after the debounce delay; the
\* rest of the iteration works on the level read before it
main_confirm ==
    /\ variant = "main" /\ pc.main = "confirm" /\ sleepLeft = 0
    /\ LET b == IF btn.level
                THEN [btn EXCEPT !.started = TRUE, !.sinceStart = 0,
                                 !.longHandled = FALSE]
                ELSE [btn EXCEPT !.bounced = TRUE]
       IN  btn' = MainRest(btn.sample, b)
    /\ Goto("main", "poll")
    /\ sleepLeft' = MAIN_POLL_MS
    /\ UNCHANGED actVars

NextButton ==
    \/ ButtonPress
    \/ ButtonRelease
    \/ BtnWake
    \/ zs_stall
    \/ checkButton
    \/ legacy_poll
    \/ legacy_confirm_press
    \/ legacy_confirm_release
    \/ main_poll
    \/ main_confirm

SpecButton == InitButton /\ [][NextButton]_vars

(***************************************************************************)
(* Boot and commissioning.  zs: handleWakeup(), setup(), updatePairingState *)
(* once per loop() iteration, enterDeepSleep().  legacy: the signal        *)
(* handler starts network steering and retries it after a failure.         *)
(***************************************************************************)
JoinVariants == {"zs", "legacy", "h2", "main"}

\* the variants whose signal handler drives network steering itself
SteeringVariants == {"legacy", "h2", "main"}

JoinCapMs == PAIRING_TIMEOUT_MS + JoinSlackMs

\* the node is trying to join
Seeking ==
    \/ variant = "zs" /\ node.stage \in {"loop", "loop_delay"}
          /\ node.pairing = "IN_PROGRESS"
    \/ variant \in SteeringVariants /\ node.stage \in {"steering", "retry_wait"}

\* the node is settled: joined, or not yet seen to be without a network
Idle ==
    \/ variant = "zs"
          /\ node.stage \in {"loop", "loop_delay", "joined_delay",
                             "setup_delay"}
          /\ node.pairing = "IDLE"
    \/ variant \in SteeringVariants /\ node.stage = "joined"

JoinFailed == variant = "zs" /\ node.pairing = "FAILED"

\* esp_deep_sleep_start() has been called
Sleeping == node.stage = "asleep"

\* d ms pass
JoinTick(n, d) ==
    [n EXCEPT !.elapsed = Min(@ + d, JoinCapMs),
              !.sought = IF Seeking THEN Min(@ + d, JoinCapMs) ELSE @]

\* handleWakeup() is over: the length of the hold is kept as its class
WakeDone(n, st) ==
    [n EXCEPT !.stage = st, !.longHold = n.held > LONG_PRESS_MS,
              !.held = 0, !.wakeMs = 0]

\* seeking begins
SeekFrom(n) ==
    [n EXCEPT !.sought = 0, !.retries = 0, !.seeks = Min(@ + 1, MaxRetries),
              !.armed = 0, !.pushes = 0,
              !.first = IF @ = "none" THEN "Seeking" ELSE @]

\* zs: state.pairing = PAIRING_IN_PROGRESS; state.pairingStartTime = millis()
StartPairing_KeepStart(n) == [n EXCEPT !.pairing = "IN_PROGRESS"]

StartPairing(n) == [n EXCEPT !.pairing = "IN_PROGRESS", !.elapsed = 0]

\* the node is joined: a new round of reporting set-up and state push
JoinedFrom(n) ==
    [n EXCEPT !.armed = 0, !.pushes = 0, !.sought = 0,
              !.first = IF @ = "none" THEN "Idle" ELSE @]

\* zs: setupReporting()
SetupReporting(n) == [n EXCEPT !.armed = Min(@ + 1, MaxEvents)]

\* zs: reportLightState(), which returns at once when not connected
ReportLightState_Always(n) == [n EXCEPT !.pushes = Min(@ + 1, MaxEvents)]

ReportLightState(n) ==
    IF connected THEN [n EXCEPT !.pushes = Min(@ + 1, MaxEvents)] ELSE n

joinFix == << variant, pc, ret, arg, sleepLeft, g_servo_at_target,
              g_servo_state, servoAutoReturnPending, zbReq, hist, btn,
              zbLock >>
servoVars == << servoDuty, lightState, timerArmed, timerLeftUs >>
joinRest == << joinFix, servoVars >>

\* zs, enterDeepSleep(): ledOff(), servoRest(), delay(100),
\* esp_deep_sleep_start()
enterDeepSleep_NoRest(n) ==
    /\ node' = [n EXCEPT !.stage = "asleep", !.led = "off"]
    /\ UNCHANGED << servoDuty, timerArmed, timerLeftUs >>

enterDeepSleep(n) ==
    /\ node' = [n EXCEPT !.stage = "asleep", !.led = "off"]
    /\ servoDuty' = Duty(SERVO_REST_ANGLE)
    /\ timerArmed' = FALSE
    /\ timerLeftUs' = 0

\* the chip starts: power-on / restart, or (zs) a wake-up from deep sleep by
\* the button pin
InitJoin ==
    /\ variant \in JoinVariants
    /\ pc = [main |-> "poll", zb |-> "idle"]
    /\ ret = "none"
    /\ arg = [main |-> FALSE, zb |-> FALSE]
    /\ sleepLeft = 0
    /\ zbLock = LockInit
    /\ servoDuty = IF variant \in {"zs", "h2"} THEN Duty(SERVO_REST_ANGLE)
                   ELSE DUTY_AT_0_DEG
    /\ lightState = FALSE
    /\ g_servo_at_target = FALSE
    /\ g_servo_state = FALSE
    /\ servoAutoReturnPending = FALSE
    /\ timerArmed = FALSE
    /\ timerLeftUs = 0
    /\ connected = FALSE
    /\ zbReq = 0
    /\ hist = HistInit
    /\ btn = BtnInit
    /\ \E w \in (IF variant = "zs" THEN {"cold", "gpio"} ELSE {"cold"}) :
          \* h2: setup() sets g_ledState = LED_PAIRING before it creates the
          \* Zigbee task
          node = [NodeInit EXCEPT !.wake = w, !.stage = "boot",
                                  !.led = IF variant = "h2" THEN "pairing"
                                          ELSE "off"]

\* zs, handleWakeup(): a wake-up by the pin notes pressStart and enters the
\* polling loop; any other boot returns true at once.  The pin was low when
\* it woke the chip and may have gone high since.
handleWakeup ==
    /\ variant = "zs" /\ node.stage = "boot"
    /\ IF node.wake = "gpio"
       THEN \E l \in BOOLEAN :
               node' = [node EXCEPT !.stage = "wakeup", !.level = l,
                                    !.wakeMs = 0, !.held = 0]
       ELSE node' = [node EXCEPT !.stage = "setup"]
    /\ UNCHANGED << joinRest, connected >>

\* zs, handleWakeup(): while (digitalRead(BUTTON_PIN) == LOW); a pin read
\* high ends in enterDeepSleep(), which does not return
handleWakeup_read_NoSleep ==
    /\ variant = "zs" /\ node.stage = "wakeup"
    /\ node' = IF node.level THEN [node EXCEPT !.stage = "wakeup_delay"]
               ELSE WakeDone(node, "setup")
    /\ UNCHANGED << joinRest, connected >>

handleWakeup_read ==
    /\ variant = "zs" /\ node.stage = "wakeup"
    /\ IF node.level
       THEN /\ node' = [node EXCEPT !.stage = "wakeup_delay"]
            /\ UNCHANGED << servoDuty, timerArmed, timerLeftUs >>
       ELSE enterDeepSleep([WakeDone(node, "asleep") EXCEPT
                               !.first = "Sleeping"])
    /\ UNCHANGED << joinFix, lightState, connected >>

\* zs, handleWakeup(): delay(50), then the long-press test.  The button is
\* let go rel ms into the delay (rel = 0: it stays down).
handleWakeup_delay ==
    /\ variant = "zs" /\ node.stage = "wakeup_delay"
    /\ \E rel \in 0 .. WAKE_POLL_MS :
          LET t == node.wakeMs + WAKE_POLL_MS
              n == [node EXCEPT
                      !.wakeMs = t,
                      !.level = rel = 0,
                      !.held = IF rel = 0 THEN t ELSE node.wakeMs + rel,
                      !.stage = "wakeup"]
          IN  node' = IF t > LONG_PRESS_MS THEN WakeDone(n, "setup") ELSE n
    /\ UNCHANGED << joinRest, connected >>

\* zs, setup() after handleWakeup(): Zigbee.begin(), pairingStartTime =
\* millis(), state.pairing from Zigbee.connected(); when connected,
\* setupReporting() and delay(500)
setup_NoPairing ==
    /\ variant = "zs" /\ node.stage = "setup"
    /\ \E c \in BOOLEAN :
          /\ connected' = c
          /\ node' = [SetupReporting(JoinedFrom(node)) EXCEPT
                        !.stage = "setup_delay", !.pairing = "IDLE",
                        !.elapsed = 0]
    /\ UNCHANGED joinRest

setup ==
    /\ variant = "zs" /\ node.stage = "setup"
    /\ \E c \in BOOLEAN :
          /\ connected' = c
          /\ node' = IF c
                     THEN [SetupReporting(JoinedFrom(node)) EXCEPT
                             !.stage = "setup_delay", !.pairing = "IDLE",
                             !.elapsed = 0]
                     ELSE [StartPairing(SeekFrom(node)) EXCEPT
                             !.stage = "loop"]
    /\ UNCHANGED joinRest

\* zs, setup(): after the delay(500), reportLightState()
setup_report ==
    /\ variant = "zs" /\ node.stage = "setup_delay"
    /\ node' = [ReportLightState(JoinTick(node, JOIN_SETTLE_MS)) EXCEPT
                  !.stage = "loop"]
    /\ UNCHANGED << joinRest, connected >>

\* zs, loop() step 2 with a short press while the light is off:
\* toggleLight() -> turnLightOn(): servoPlay(), delay(50), reportLightState().
\* The countdown of the deadline is not followed here: the press is taken
\* up when the deadline cannot expire before the pairing timeout does.
loop_tap_on ==
    /\ variant = "zs" /\ node.stage = "loop" /\ ~lightState
    /\ node.pairing = "IN_PROGRESS"
    /\ node.elapsed + SERVO_AUTO_RETURN_MS > PAIRING_TIMEOUT_MS
    /\ lightState' = TRUE
    /\ servoDuty' = Duty(SERVO_TARGET_ANGLE)
    /\ timerArmed' = TRUE
    /\ timerLeftUs' = AutoReturnUs
    /\ node' = JoinTick(node, REPORT_DELAY_MS)
    /\ UNCHANGED << joinFix, connected >>

\* zs: updatePairingState(), called once per loop() iteration
updatePairingState_TimeoutFirst ==
    /\ variant = "zs" /\ node.stage = "loop"
    /\ node.pairing # "FAILED"
    /\ node' =
         IF node.pairing = "IDLE"
         THEN IF ~connected
              THEN [StartPairing(SeekFrom(node)) EXCEPT
                      !.stage = "loop_delay"]
              ELSE [node EXCEPT !.stage = "loop_delay"]
         ELSE IF node.elapsed > PAIRING_TIMEOUT_MS
              THEN [node EXCEPT !.pairing = "FAILED",
                                !.fails = Min(@ + 1, MaxRetries),
                                !.stage = "loop_delay"]
              ELSE IF connected
              THEN [SetupReporting(JoinedFrom(node)) EXCEPT
                      !.pairing = "IDLE", !.stage = "joined_delay",
                      !.led = IF lightState THEN "light" ELSE "off"]
              ELSE [node EXCEPT !.stage = "loop_delay", !.led = "blue"]
    /\ UNCHANGED << joinRest, connected >>

updatePairingState ==
    /\ variant = "zs" /\ node.stage = "loop"
    /\ node.pairing # "FAILED"
    /\ node' =
         IF node.pairing = "IDLE"
         THEN IF ~connected
              THEN [StartPairing(SeekFrom(node)) EXCEPT
                      !.stage = "loop_delay"]
              ELSE [node EXCEPT !.stage = "loop_delay"]
         ELSE IF connected
              THEN [SetupReporting(JoinedFrom(node)) EXCEPT
                      !.pairing = "IDLE", !.stage = "joined_delay",
                      !.led = IF lightState THEN "light" ELSE "off"]
              ELSE IF node.elapsed > PAIRING_TIMEOUT_MS
              THEN [node EXCEPT !.pairing = "FAILED",
                                !.fails = Min(@ + 1, MaxRetries),
                                !.stage = "loop_delay"]
              ELSE [node EXCEPT !.stage = "loop_delay", !.led = "blue"]
    /\ UNCHANGED << joinRest, connected >>

\* zs, updatePairingState() after a join: zbLight.restoreLight(), delay(500),
\* reportLightState()
joined_report ==
    /\ variant = "zs" /\ node.stage = "joined_delay"
    /\ node' = [ReportLightState(JoinTick(node, JOIN_SETTLE_MS)) EXCEPT
                  !.stage = "loop_delay"]
    /\ UNCHANGED << joinRest, connected >>

\* zs, updatePairingState() in PAIRING_FAILED: ledRed(), delay(2000)
updatePairingState_failed_Rejoins ==
    /\ variant = "zs" /\ node.stage = "loop" /\ node.pairing = "FAILED"
    /\ node' = IF connected
               THEN [JoinedFrom(node) EXCEPT !.pairing = "IDLE",
                                             !.stage = "loop_delay"]
               ELSE [node EXCEPT !.stage = "failed_delay", !.led = "red"]
    /\ UNCHANGED << joinRest, connected >>

updatePairingState_failed ==
    /\ variant = "zs" /\ node.stage = "loop" /\ node.pairing = "FAILED"
    /\ node' = [node EXCEPT !.stage = "failed_delay", !.led = "red"]
    /\ UNCHANGED << joinRest, connected >>

\* zs, updatePairingState() in PAIRING_FAILED: after the delay,
\* enterDeepSleep()
updatePairingState_sleep_Early ==
    /\ variant = "zs" /\ node.stage \in {"failed_delay", "loop_delay"}
    /\ enterDeepSleep([node EXCEPT !.shown = FAILED_SHOW_MS])
    /\ UNCHANGED << joinFix, lightState, connected >>

updatePairingState_sleep ==
    /\ variant = "zs" /\ node.stage = "failed_delay"
    /\ enterDeepSleep([node EXCEPT !.shown = FAILED_SHOW_MS])
    /\ UNCHANGED << joinFix, lightState, connected >>

\* zs, loop(): delay(10)
loop_delay ==
    /\ variant = "zs" /\ node.stage = "loop_delay"
    /\ node' = [JoinTick(node, LOOP_DELAY_MS) EXCEPT !.stage = "loop"]
    /\ UNCHANGED << joinRest, connected >>

\* zs: the Zigbee library joins a network while the node is not joined; it
\* goes on trying after state.pairing has become PAIRING_FAILED
zs_joined ==
    /\ variant = "zs" /\ ~connected
    /\ Seeking \/ (JoinFailed /\ ~Sleeping)
    /\ connected' = TRUE
    /\ UNCHANGED << joinRest, node >>

\* zs: the network is lost
zs_left ==
    /\ variant = "zs"
    /\ node.stage \in {"loop", "loop_delay", "joined_delay", "setup_delay"}
    /\ connected /\ node.losses < MaxLoss
    /\ connected' = FALSE
    /\ node' = [node EXCEPT !.losses = @ + 1]
    /\ UNCHANGED joinRest

\* zs: the button pulls the pin low while the chip is in deep sleep; the
\* chip boots again
gpio_wakeup ==
    /\ variant = "zs" /\ Sleeping /\ node.boots < MaxBoots
    /\ node' = [NodeInit EXCEPT !.wake = "gpio", !.stage = "boot",
                                !.boots = node.boots + 1]
    /\ connected' = FALSE
    /\ lightState' = FALSE
    /\ UNCHANGED << joinFix, servoDuty, timerArmed, timerLeftUs >>

\* legacy / h2 / main, esp_zb_app_signal_handler: DEVICE_FIRST_START /
\* DEVICE_REBOOT with ESP_OK starts network steering, and main takes a node
\* that is not factory new as joined; with an error status the handler
\* only sets LED_ERROR
signal_first_start_IgnoresStatus ==
    /\ variant \in SteeringVariants /\ node.stage = "boot"
    /\ \E ok \in BOOLEAN :
       \E factoryNew \in (IF variant = "main" THEN BOOLEAN ELSE {TRUE}) :
          IF factoryNew
          THEN /\ node' = [SeekFrom(node) EXCEPT
                             !.stage = "steering", !.elapsed = 0,
                             !.startErr = ~ok,
                             !.led = IF variant = "h2" THEN @ ELSE "pairing"]
               /\ connected' = connected
          ELSE /\ node' = [JoinedFrom(node) EXCEPT !.stage = "joined",
                                                   !.startErr = ~ok,
                                                   !.led = "connected"]
               /\ connected' = TRUE
    /\ UNCHANGED joinRest

signal_first_start ==
    /\ variant \in SteeringVariants /\ node.stage = "boot"
    /\ \E ok \in BOOLEAN :
       \E factoryNew \in (IF variant = "main" THEN BOOLEAN ELSE {TRUE}) :
          IF ~ok
          THEN /\ node' = [node EXCEPT !.stage = "start_failed",
                                       !.startErr = TRUE, !.led = "error"]
               /\ connected' = connected
          ELSE IF factoryNew
          THEN /\ node' = [SeekFrom(node) EXCEPT
                             !.stage = "steering", !.elapsed = 0,
                             !.led = IF variant = "h2" THEN @ ELSE "pairing"]
               /\ connected' = connected
          ELSE /\ node' = [JoinedFrom(node) EXCEPT !.stage = "joined",
                                                   !.led = "connected"]
               /\ connected' = TRUE
    /\ UNCHANGED joinRest

\* the network stack scans for ScanStepMs
steering_scan ==
    /\ variant \in SteeringVariants /\ node.stage = "steering"
    /\ node.elapsed < JoinCapMs
    /\ node' = JoinTick(node, ScanStepMs)
    /\ UNCHANGED << joinRest, connected >>

\* esp_zb_app_signal_handler: STEERING with ESP_OK
signal_steering_joined ==
    /\ variant \in SteeringVariants /\ node.stage = "steering"
    /\ connected' = TRUE
    /\ node' = [JoinedFrom(node) EXCEPT !.stage = "joined",
                                        !.led = "connected"]
    /\ UNCHANGED joinRest

\* esp_zb_app_signal_handler: STEERING with an error schedules
\* retry_steering in 1 s
signal_steering_failed_Immediate ==
    /\ variant \in SteeringVariants /\ node.stage = "steering"
    /\ node' = [node EXCEPT !.retries = Min(@ + 1, MaxRetries)]
    /\ UNCHANGED << joinRest, connected >>

signal_steering_failed ==
    /\ variant \in SteeringVariants /\ node.stage = "steering"
    /\ node' = [node EXCEPT !.stage = "retry_wait",
                            !.alarm = @ + 1,
                            !.retries = Min(@ + 1, MaxRetries)]
    /\ UNCHANGED << joinRest, connected >>

\* the alarm fires after STEERING_RETRY_MS and retry_steering() /
\* bdb_start_top_level_commissioning_cb() starts steering again
retry_steering ==
    /\ variant \in SteeringVariants /\ node.stage = "retry_wait"
    /\ node.alarm > 0
    /\ node' = [JoinTick(node, STEERING_RETRY_MS) EXCEPT
                  !.stage = "steering", !.alarm = @ - 1]
    /\ UNCHANGED << joinRest, connected >>

NextJoin ==
    \/ handleWakeup
    \/ handleWakeup_read
    \/ handleWakeup_delay
    \/ setup
    \/ setup_report
    \/ loop_tap_on
    \/ updatePairingState
    \/ joined_report
    \/ updatePairingState_failed
    \/ updatePairingState_sleep
    \/ loop_delay
    \/ zs_joined
    \/ zs_left
    \/ gpio_wakeup
    \/ signal_first_start
    \/ steering_scan
    \/ signal_steering_joined
    \/ signal_steering_failed
    \/ retry_steering

SpecJoin == InitJoin /\ [][NextJoin]_vars

(***************************************************************************)
(* Calls into the Zigbee stack from a task outside it.  zs: the loop task  *)
(* calls setupReporting() and reportLightState().  legacy / main: the      *)
(* button task calls report_attribute() and esp_zb_factory_reset(); h2:    *)
(* the button task calls esp_zb_factory_reset().  The stack task holds the *)
(* lock while esp_zb_stack_main_loop() works.                              *)
(***************************************************************************)
MaxCalls == 3

\* the functions that esp_zb_lock_acquire() before their request
LockedCalls ==
    {"setupOnOffReporting", "setupLevelReporting", "reportOnOff",
     "reportLevel"}

\* the calls into the stack that a task outside it makes
StackCalls(v) ==
    CASE v = "zs"     -> LockedCalls
      [] v = "legacy" -> {"report_attribute", "esp_zb_factory_reset"}
      [] v = "main"   -> {"report_attribute", "esp_zb_factory_reset"}
      [] v = "h2"     -> {"esp_zb_factory_reset"}

lockRest == << variant, pc, ret, arg, sleepLeft, servoDuty, lightState,
               g_servo_at_target, g_servo_state, servoAutoReturnPending,
               timerArmed, timerLeftUs, connected, zbReq, hist, btn, node >>

\* the task enters one of the functions
stack_call ==
    /\ zbLock.call = "none" /\ zbLock.calls < MaxCalls
    /\ \E f \in StackCalls(variant) :
          zbLock' = [zbLock EXCEPT !.call = f, !.at = "entered",
                                   !.err = FALSE]
    /\ UNCHANGED lockRest

\* esp_zb_lock_acquire(portMAX_DELAY): waits until the lock is free
esp_zb_lock_acquire ==
    /\ zbLock.call \in LockedCalls /\ zbLock.at = "entered"
    /\ zbLock.owner = "none"
    /\ zbLock' = [zbLock EXCEPT !.owner = "app", !.at = "locked",
                                !.reqs = 0]
    /\ UNCHANGED lockRest

\* the request into the stack: esp_zb_zcl_update_reporting_info / 
\* esp_zb_zcl_report_attr_cmd_req / esp_zb_factory_reset; it may return an
\* error
stack_request ==
    /\ zbLock.call # "none"
    /\ zbLock.at = IF zbLock.call \in LockedCalls THEN "locked"
                   ELSE "entered"
    /\ \E e \in BOOLEAN :
          zbLock' = [zbLock EXCEPT
                       !.at = "sent", !.err = e,
                       !.reqs = @ + 1,
                       !.bare = @ \/ zbLock.owner # "app"]
    /\ UNCHANGED lockRest

\* esp_zb_lock_release(), before the result of the request is looked at
esp_zb_lock_release ==
    /\ zbLock.call \in LockedCalls /\ zbLock.at = "sent"
    /\ zbLock' = [zbLock EXCEPT !.owner = "none", !.at = "released"]
    /\ UNCHANGED lockRest

\* the function returns: false after an error, true otherwise
stack_return ==
    /\ zbLock.call # "none"
    /\ zbLock.at = IF zbLock.call \in LockedCalls THEN "released"
                   ELSE "sent"
    /\ zbLock' = [zbLock EXCEPT !.call = "none", !.at = "idle",
                                !.reqs = 0,
                                !.held = @ \/ zbLock.owner = "app",
                                !.calls = @ + 1]
    /\ UNCHANGED lockRest

\* the stack task takes the lock for a turn of esp_zb_stack_main_loop(),
\* or gives it back at the end of the turn
stack_turn ==
    /\ zbLock.owner # "app"
    /\ zbLock' = [zbLock EXCEPT
                    !.owner = IF @ = "none" THEN "stack" ELSE "none"]
    /\ UNCHANGED lockRest

NextLock ==
    \/ stack_call
    \/ esp_zb_lock_acquire
    \/ stack_request
    \/ esp_zb_lock_release
    \/ stack_return
    \/ stack_turn

SpecLock == Init /\ [][NextLock]_vars

(***************************************************************************)
(* Properties                                                              *)
(***************************************************************************)
\* no press / release / set_servo call is in progress in any context
Quiescent == \A c \in Ctx : ~InOp(c)

\* the variants that arm the auto-return timer
Timed == variant \in {"zs", "legacy", "h2"}

\* the auto-release of the pending deadline is under way: the timer has
\* expired and its callback is due, or the flag waits for the loop
ExpiryDue ==
    \/ timerArmed /\ timerLeftUs = 0
    \/ servoAutoReturnPending
    \/ variant = "zs" /\ pc.main = "clear"

C2_ReleaseCancelsDeadline ==
    hist.cancelled =>
        /\ ~timerArmed
        /\ ~servoAutoReturnPending
        /\ ~Consuming
        /\ hist.autoCount = 0

\* 2000 ms after such a release nothing has happened
C2_Witness ==
    /\ Timed /\ hist.cancelled /\ Quiescent
    /\ hist.sinceCmd = SERVO_AUTO_RETURN_MS
    /\ ~Pressed /\ servoDuty = Duty(SERVO_REST_ANGLE)

\* zs: the loop applies an expiry although a command was issued after it
StaleConsumer ==
    /\ variant = "zs" /\ ret = "button" /\ hist.superseded
    /\ turnLightOff \/ servoRest_stop("main") \/ servoRest_angle("main")

\* C3: once a command has been issued, an auto-release from a deadline armed
\* before it changes nothing: not when the loop consumes a flag raised before
\* the command (zs), not when the callback runs while the command is being
\* executed (legacy, h2)
C3_OldDeadlineSuperseded ==
    [][ /\ StaleConsumer =>
              /\ lightState' = lightState
              /\ servoDuty' = servoDuty
              /\ timerArmed' = timerArmed
        /\ servo_return_callback /\ ~Quiescent =>
              /\ servoDuty' = servoDuty
              /\ g_servo_at_target' = g_servo_at_target ]_vars

\* a press or servoPlay step that starts the timer
StartStep ==
    \E c \in Ctx : servoPlay_start(c) \/ servo_start_timer_start(c)

\* C4: one deadline at most: whenever a press arms the timer, what is armed
\* afterwards is the one fresh deadline of the full delay, whatever was
\* running before (it has been stopped first)
C4_NoDeadlineLeak ==
    [][StartStep => timerArmed' /\ timerLeftUs' = AutoReturnUs]_vars

\* a press has replaced an older, partly elapsed deadline
C4_Witness ==
    /\ hist.rearmed /\ Quiescent
    /\ timerArmed /\ timerLeftUs = AutoReturnUs

\* C5: between operations a deadline is armed exactly when the position is
\* Pressed
C5_DeadlineIffPressed ==
    variant \in {"legacy", "h2", "main"} /\ Quiescent =>
        (timerArmed <=> Pressed)

\* C6: the timer callback does not command the driver, does not write the
\* position and makes no request to the network stack; it only raises the
\* flag
C6_CallbackOnlyRaisesFlag ==
    [][servoReturnCallback \/ servo_return_callback =>
          /\ servoDuty' = servoDuty
          /\ UNCHANGED posVars
          /\ zbReq' = zbReq
          /\ servoAutoReturnPending']_vars

BootState == << FALSE, DUTY_AT_0_DEG, FALSE >>
PressedState == << TRUE, Duty(SERVO_TARGET_ANGLE), TRUE >>
RestState == << FALSE, Duty(SERVO_REST_ANGLE), FALSE >>

\* C8: concurrent calls leave the position, the commanded angle and the
\* timer as some serial order of them would
C8_Serializable ==
    variant = "legacy" /\ Quiescent =>
        << g_servo_at_target, servoDuty, timerArmed >>
            \in {BootState, PressedState, RestState}

\* C9: when the attribute handler returns, payload true has left the
\* actuator Pressed with the deadline armed for the full delay, payload
\* false has left it at Rest with no deadline
C9_NetworkRouting ==
    pc.zb = "ret" =>
        IF arg.zb
        THEN /\ Pressed /\ servoDuty = Duty(TargetAngle)
             /\ timerArmed /\ timerLeftUs = AutoReturnUs
        ELSE /\ ~Pressed /\ servoDuty = Duty(SERVO_REST_ANGLE)
             /\ ~timerArmed

\* the button path has just finished a toggle no other context cut into
ToggleDone(saw) ==
    /\ pc.main \in {"on_report", "off_report", "report"}
    /\ hist.tgl = saw /\ hist.sinceCmd = 0

\* C10: a toggle that found the actuator Pressed has released it (rest
\* angle, timer stopped); one that found it at Rest has pressed it (target
\* angle, timer armed for the full delay)
C10_ToggleSemantics ==
    /\ ToggleDone("sawPressed") =>
           /\ ~Pressed /\ servoDuty = Duty(SERVO_REST_ANGLE)
           /\ ~timerArmed
    /\ ToggleDone("sawRest") =>
           /\ Pressed /\ servoDuty = Duty(TargetAngle)
           /\ timerArmed /\ timerLeftUs = AutoReturnUs


\* a step of servoPlay / servo_play / set_servo(true) by some context
PressStep ==
    \E c \in Ctx :
        \/ servoPlay_angle(c) \/ servoPlay_stop(c) \/ servoPlay_start(c)
        \/ servo_play_angle(c) \/ servo_play_pos(c)
        \/ servo_start_timer_stop(c) \/ servo_start_timer_start(c)

\* a step of servoRest / servo_rest by some context
ReleaseStep ==
    \E c \in Ctx :
        \/ servoRest_stop(c) \/ servoRest_angle(c)
        \/ servo_cancel_timer(c) \/ servo_rest_angle(c) \/ servo_rest_pos(c)

\* a step that commands the driver (ledc_set_duty / ledcWrite)
DriverStep ==
    \/ \E c \in Ctx :
          \/ servoPlay_angle(c) \/ servoRest_angle(c)
          \/ servo_play_angle(c) \/ servo_rest_angle(c)
          \/ set_servo_duty(c)
    \/ servo_return_callback

C12_ReleaseIdempotent ==
    [][hist.repeat = "release" /\ (ReleaseStep \/ \E c \in Ctx : set_servo_duty(c))
          => /\ ~DriverStep
             /\ UNCHANGED << servoDuty, posVars, timerVars >>]_vars

\* C13: a press repeated without a release in between restarts the deadline
\* at the full delay, and issues no position command since the position did
\* not change
C13_RepeatedPressRearms ==
    [][hist.repeat = "press" =>
          /\ StartStep => timerArmed' /\ timerLeftUs' = AutoReturnUs
          /\ PressStep => ~DriverStep]_vars


\* C14: when the driver has rejected the positioning command of a press or
\* release, the call ends with the recorded position as it was, and a failed
\* press at Rest has armed no deadline
C14_DriverFault ==
    variant \in {"legacy", "h2", "main"} /\ hist.fault # "none"
        /\ Quiescent /\ hist.sinceCmd = 0 =>
            /\ Pressed = hist.faultWas
            /\ hist.fault = "press" /\ ~hist.faultWas => ~timerArmed

\* the classifier has emitted nothing and nothing was done for the hold
NoButtonEvent == btn.taps = 0 /\ btn.longs = 0 /\ btn.resets = 0

\* C15: a hold shorter than the debounce floor, once released and dealt
\* with, has produced no Tap, no LongHold, no toggle and no factory reset
C15_GlitchNoEvent ==
    HoldDone /\ btn.lastHold < FloorMs => NoButtonEvent

\* C16: a hold longer than the debounce floor and shorter than the long-hold
\* threshold, once released and dealt with, has produced exactly one Tap and
\* no LongHold or factory reset, wherever the polls fell
C16_TapOnce ==
    HoldDone /\ btn.lastHold > FloorMs /\ btn.lastHold < LongMs =>
        btn.taps = 1 /\ btn.longs = 0 /\ btn.resets = 0

\* C17: a hold longer than the long-hold threshold has produced exactly one
\* LongHold and no Tap, and nothing was done at or after its release
C17_LongHoldOnce ==
    HoldDone /\ btn.lastHold > LongMs =>
        btn.longs = 1 /\ btn.taps = 0 /\ btn.lateActs = 0

\* C18: once the re-sample after the debounce window has read released, the
\* classifier has no press start on record, and that poll and the ones after
\* it produce no Tap, LongHold, toggle or factory reset
C18_BounceRejected ==
    btn.bounced => NoButtonEvent /\ ~btn.started

\* C19: a step of the commissioning code taken while the node is seeking,
\* not joined, and has been seeking for longer than the join timeout moves
\* it to JoinFailed, for the first and only time, however many join attempts
\* have failed
C19_JoinTimeout ==
    [][/\ Seeking /\ ~connected /\ node.elapsed > PAIRING_TIMEOUT_MS
       /\ updatePairingState \/ signal_steering_failed \/ retry_steering
       => JoinFailed' /\ node'.fails = 1]_vars

\* handleWakeup() / the boot signal has been dealt with
BootDecided == node.stage \notin {"boot", "wakeup", "wakeup_delay"}

\* the boot is a wake-up by the button, held for longer than the long-press
\* time
Qualifying == node.wake = "gpio" /\ node.longHold

\* C20 as stated: a boot that was not a wake-up by a qualifying hold ends in
\* deep sleep and the node has not been seeking in it
C20_NoSeekWithoutHold ==
    BootDecided /\ ~Qualifying => Sleeping /\ node.seeks = 0

\* C20: a wake-up from deep sleep by the button, with the button let go
\* before the long-press time, ends in deep sleep again and the node has not
\* been seeking in it
C20_ShortWakeSleeps ==
    BootDecided /\ node.wake = "gpio" /\ ~node.longHold =>
        Sleeping /\ node.seeks = 0

C20_Witness == node.wake = "gpio" /\ ~node.longHold /\ Sleeping

AtBoot == node.stage \in {"boot", "wakeup", "wakeup_delay", "setup"}

\* Idle is entered from Seeking with the stack reporting the node joined, or
\* at boot with the node already joined
IdleEntryOk ==
    Idle' /\ ~Idle => connected' /\ (Seeking \/ AtBoot)

\* C22 as stated: Sleeping is entered only from JoinFailed, and Idle only
\* from Seeking on join success or at boot with the node already joined
C22_OnlyFromJoinFailed ==
    [][(Sleeping' /\ ~Sleeping => JoinFailed) /\ IdleEntryOk]_vars

\* C22: Sleeping is entered only from JoinFailed or, at boot, on a wake-up by
\* the button that was let go before the long-press time; Idle is entered
\* only from Seeking on join success or at boot with the node already joined
C22_SleepFromFailedOrWake ==
    [][/\ Sleeping' /\ ~Sleeping =>
             \/ JoinFailed
             \/ AtBoot /\ node.wake = "gpio" /\ ~node'.longHold
       /\ IdleEntryOk]_vars

C22_Witness == Sleeping /\ node.fails = 1 /\ node.seeks = 2

C24_FreshAttempt ==
    /\ [](JoinFailed => node.sought > PAIRING_TIMEOUT_MS)
    /\ [][updatePairingState /\ Idle /\ ~connected =>
            Seeking' /\ node'.elapsed = 0]_vars

C24_Witness == JoinFailed /\ node.seeks = 2 /\ node.losses = 1

\* zs: the node is Idle after a join made while seeking, and the work that
\* updatePairingState() does on the join is over
JoinHandled ==
    /\ variant = "zs" /\ Idle /\ node.seeks > 0
    /\ node.stage \in {"loop", "loop_delay"}

\* Seeking is left for Idle only with the network stack reporting the node
\* joined
JoinOnlyWhenReported ==
    variant = "zs" /\ Seeking /\ Idle' => connected /\ connected'

RetryScheduled ==
    signal_steering_failed =>
        /\ node'.alarm = node.alarm + 1 /\ node'.alarm = 1
        /\ node'.stage = "retry_wait"
        /\ Seeking' /\ ~connected'

\* the scheduled attempt starts when the backoff delay has passed
RetryAfterBackoff ==
    retry_steering =>
        /\ node'.sought = Min(node.sought + STEERING_RETRY_MS, JoinCapMs)
        /\ node'.stage = "steering" /\ node'.alarm = 0

C27_ScopedLock ==
    /\ ~zbLock.bare
    /\ zbLock.reqs <= 1
    /\ ~zbLock.held
    /\ zbLock.call = "none" => zbLock.owner # "app"

\* the button path ends the handling of a Tap: the step where the report is
\* made or left out
TapReport ==
    \/ button_task_report
    \/ main_button_report
    \/ reportLightState /\ hist.tgl # "none"

\* C28: the handling of a Tap has made one toggle of the actuator when it
\* comes to the report, and a report request is made for it if and only if
\* the node is joined
C28_TapReportsIffJoined ==
    [][TapReport =>
          /\ hist.tgl # "none"
          /\ zbReq' # zbReq <=> connected]_vars

\* C29: a hold for which the classifier has recognised a long press has had
\* the factory reset invoked exactly once by the time it has been dealt
\* with, and never more than once at any time
C29_ResetOncePerLongHold ==
    /\ btn.resets <= 1
    /\ HoldDone /\ btn.longs >= 1 => btn.resets = 1

C29_Witness == HoldDone /\ btn.longs = 1 /\ btn.resets = 1

\* C30: each tick of loop() takes its steps in the order 1, 2, 3, with step
\* 1 taken exactly when the flag was raised at the start of the tick and
\* step 3 once; the turnLightOff() of step 1 has returned before the button
\* is polled and before a Tap of the same tick is handled
C30_TickOrder ==
    [][/\ loop_pair =>
            hist'.tickSteps = IF hist.tickFlag THEN << 1, 2, 3 >>
                              ELSE << 2, 3 >>
       /\ loop_button \/ toggleLight =>
            (hist.tickFlag => hist.tickApplied)]_vars

C30_Witness ==
    variant = "zs" /\ pc.main = "toggle" /\ hist.tickFlag /\ hist.tickApplied

\* C31: a call of updatePairingState() makes its time comparisons and
\* returns to loop(), which goes on to its delay(10) and the next tick: the
\* commissioning step holds no wait of its own and always comes back
C31_StepDoesNotWait ==
    [][updatePairingState \/ updatePairingState_failed =>
          node'.stage = "loop_delay"]_vars

\* the servo stands at the target angle with nothing in progress, no timer
\* armed and no expiry waiting to be consumed: only a further command can
\* move it
StuckPressed ==
    /\ servoDuty = Duty(TargetAngle)
    /\ Quiescent /\ pc.zb = "idle"
    /\ ~timerArmed /\ ~servoAutoReturnPending /\ ~Consuming

\* C32: the actuator is never left at the target angle in a state from which
\* it returns to rest only if a further command arrives
C32_EventualRest == ~StuckPressed

HoldLength == IF btn.level THEN btn.heldMs ELSE btn.lastHold

\* C34: the factory reset has been invoked only for a hold of the button
\* that lasted longer than the long-press time
C34_NoSpuriousReset ==
    btn.resets > 0 => HoldLength > LongMs

\* C35: between servo operations the position flag (g_servo_at_target,
\* g_servoAtTarget, g_servo_state) is true exactly when the duty last
\* written to the driver is that of the target angle
C35_FlagMatchesAngle ==
    variant \in {"legacy", "h2", "main"} /\ Quiescent =>
        (Pressed <=> servoDuty = Duty(TargetAngle))

\* C36: when an auto-release is applied the on/off state is off and, with
\* the node joined, a report is requested for it.  zs: the turnLightOff()
\* called by step 1 of loop() commands the rest angle, and later comes to
\* its report; legacy and h2: the timer callback runs
C36_AutoReleaseSyncsState ==
    [][/\ servoRest_angle("main") /\ ret = "button" => ~lightState'
       /\ reportLightState /\ ret = "button" =>
            (connected => zbReq' # zbReq)
       /\ servo_return_callback =>
            ~g_servo_at_target' /\ (connected => zbReq' # zbReq)]_vars

\* C37: legacy / h2 / main: the connected flag is false at boot, true from a
\* successful join and false again from a leave signal, so that it is true
\* exactly while the node is in a network; a report the button task sends
\* is sent while the node is in a network
C37_ConnectedTracksMembership ==
    /\ [](variant \in SteeringVariants => (connected <=> hist.member))
    /\ [][button_task_report \/ main_button_report =>
             (zbReq' # zbReq => hist.member)]_vars

\* C38: legacy / h2 / main: network steering is started only by a
\* first-start / reboot signal with OK status or by the scheduled retry
\* after a steering failure; a first-start / reboot signal with an error
\* status starts no steering, sets the indicator to error and leaves the
\* node not connected
SteeringStarted == node'.stage = "steering" /\ node.stage # "steering"

C38_SteeringOnlyAfterGoodStart ==
    /\ [][SteeringStarted =>
             \/ signal_first_start /\ ~node'.startErr
             \/ retry_steering /\ node.retries > 0]_vars
    /\ [][signal_first_start /\ node'.startErr =>
             node'.led = "error" /\ ~connected']_vars
    /\ [](node.startErr => ~Seeking /\ ~Idle /\ node.seeks = 0 /\ ~connected)

C38_Witness ==
    /\ variant \in SteeringVariants
    /\ node.startErr /\ node.led = "error" /\ node.stage = "start_failed"

\* C39: zs: a Seeking tick that observes the node joined moves to Idle even
\* when the elapsed seeking time is already over the join timeout;
\* JoinFailed is entered only in a tick that observes the node not joined
C39_JoinWinsOverTimeout ==
    /\ [][updatePairingState /\ Seeking /\ connected =>
             Idle' /\ node'.fails = node.fails]_vars
    /\ [][~JoinFailed /\ JoinFailed' =>
             updatePairingState /\ Seeking /\ ~connected]_vars

C39_Witness ==
    /\ variant = "zs" /\ node.stage = "joined_delay" /\ connected
    /\ node.elapsed > PAIRING_TIMEOUT_MS /\ node.fails = 0

\* C40: legacy / h2 / main: an attribute-write notification for another
\* endpoint, another cluster or another attribute than the on/off attribute
\* of the device's endpoint leaves the actuator position, the auto-release
\* timer, the connected flag and the indicator unchanged, and the handler
\* returns success
OtherWrite ==
    /\ zb_attribute_handler \/ main_zb_attribute_handler
    /\ hist'.filtered \in {"endpoint", "cluster", "attribute"}

C40_OtherWritesFiltered ==
    [][OtherWrite =>
          /\ UNCHANGED << servoDuty, g_servo_at_target, g_servo_state,
                          lightState, servoAutoReturnPending, timerArmed,
                          timerLeftUs, connected, node >>
          /\ pc'.zb = "idle"
          /\ hist'.status = "ESP_OK"]_vars

C40_Witness ==
    /\ hist.filtered \in {"endpoint", "cluster", "attribute"}
    /\ hist.status = "ESP_OK"
    /\ servoDuty = Duty(TargetAngle) /\ connected /\ pc.zb = "idle"

====
